---- MODULE Spec2Model ----
(***************************************************************************)
(* Model of the aftman/rokit core visible in this repository:              *)
(*   - lib/util.rs      : load_from_file_fallible, load_from_file,         *)
(*                        save_to_file, write_executable_file,             *)
(*                        write_executable_link, add_executable_permissions*)
(*   - src/cli/mod.rs   : Cli::run (load -> subcommand -> save -> result)  *)
(*   - src/main.rs      : main (dispatch, error logging, exit code)        *)
(*                                                                         *)
(*   - src/cli/self_install.rs : SelfInstallSubcommand::run                *)
(*                                                                         *)
(* Six specifications share one set of variables:                          *)
(*   Spec        one process invocation, main -> Cli::run -> exit          *)
(*   SpecFile    sequences of load/save calls on one state file            *)
(*   SpecExe     two writers of one executable path, with interruption     *)
(*   SpecLink    calls of write_executable_link on one link path           *)
(*   SpecRace    two invocations of Cli::run on the same state files       *)
(*   SpecInstall one run of the self-install subcommand                    *)
(***************************************************************************)
EXTENDS Integers, Sequences, FiniteSets

VARIABLES
    \* ---- one process invocation (main, Cli::run)
    pc,            \* position in main / Cli::run
    home,          \* the in-memory Home, once loaded
    trustFile,     \* the trust store file on disk
    toolsFile,     \* the tool index file on disk
    loadResult,    \* result of Home::load_from_env
    cmdResult,     \* `result` of the subcommand (mod.rs:40)
    saveResult,    \* result of home.save()
    runResult,     \* what main's `result` is bound to
    exitCode,      \* process exit code
    logged,        \* errors written by main through error!
    raised,        \* every error some phase produced
    saveAttempts,  \* number of calls of home.save()
    saveArg,       \* the Home contents handed to home.save()
    homeLoaded,    \* the Home contents as Home::load_from_env returned them
    \* ---- one state file (load_from_file*, save_to_file)
    file,          \* the file at the path
    hist,          \* the calls made so far, with their results
    \* ---- one executable path (write_executable_file)
    exeFile,       \* the file at the final path
    exeMode,       \* TRUE when the file carries mode 0o755
    wpc,           \* per writer: position in write_executable_file
    woff,          \* per writer: offset of its file handle
    wres,          \* per writer: returned result
    finished,      \* writers in the order they returned Ok
    exePrior,      \* the file at the final path before any writer ran
    \* ---- one link path (write_executable_link)
    platform,      \* the build target
    linkEntry,     \* what is at the link path
    lpc,           \* position in write_executable_link
    ltarget,       \* target_path of the running call
    removeResult,  \* outcome of remove_file (util.rs:109)
    symlinkTried,  \* TRUE once symlink() was called (util.rs:111)
    chmodTried,    \* TRUE once set_permissions was called on the link
    linkResult,    \* returned result of the call
    linkBefore,    \* linkEntry when the call started
    calls,         \* number of calls made so far
    \* ---- two process invocations on the same state files
    rpc,           \* per invocation: position in Cli::run
    rhome,         \* per invocation: its in-memory Home
    rTrust,        \* the shared trust store file
    rTools,        \* the shared tool index file
    rsaved,        \* per invocation: the Home contents its save wrote
    saveOrder,     \* invocations in the order their save finished
    \* ---- one run of the self-install subcommand
    siPc,          \* position in SelfInstallSubcommand::run
    siHome,        \* the Home passed by reference
    siHomeBefore,  \* Home when the subcommand was entered
    siLinks,       \* what storage.recreate_all_links() returns
    siResult,      \* returned result
    siMessage      \* the main message handed to tracing::info!

cliVars  == <<pc, home, trustFile, toolsFile, loadResult, cmdResult, saveResult,
              runResult, exitCode, logged, raised, saveAttempts, saveArg,
              homeLoaded>>
fileVars == <<file, hist>>
exeVars  == <<exeFile, exeMode, wpc, woff, wres, finished, exePrior>>
linkVars == <<platform, linkEntry, lpc, ltarget, removeResult, symlinkTried,
              chmodTried, linkResult, linkBefore, calls>>
raceVars == <<rpc, rhome, rTrust, rTools, rsaved, saveOrder>>
installVars == <<siPc, siHome, siHomeBefore, siLinks, siResult, siMessage>>
vars     == <<cliVars, fileVars, exeVars, linkVars, raceVars, installVars>>

(***************************************************************************)
(* Bounds                                                                  *)
(***************************************************************************)
MaxId  == 2     \* tool identifiers are 1..MaxId
MaxLen == 2     \* longest hand-edited state file, in entries
MaxOps == 2     \* calls made on the state file in SpecFile

Ids    == 1..MaxId
Bad    == 0     \* an entry of a state file that is no identifier
Tokens == Ids \cup {Bad}

(***************************************************************************)
(* Files and values                                                        *)
(***************************************************************************)
NoFile      == [exists |-> FALSE, data |-> <<>>]
FileOf(s)   == [exists |-> TRUE, data |-> s]
NoValue     == [some |-> FALSE, v |-> {}]
Value(s)    == [some |-> TRUE, v |-> s]
Values      == SUBSET Ids
Default     == {}

SeqsUpTo(S, n) == UNION {[1..k -> S] : k \in 0..n}
AllFiles    == {NoFile} \cup {FileOf(s) : s \in SeqsUpTo(Tokens, MaxLen)}

Min(S) == CHOOSE m \in S : \A x \in S : m <= x

RECURSIVE SortedSeq(_)
SortedSeq(S) == IF S = {} THEN <<>> ELSE <<Min(S)>> \o SortedSeq(S \ {Min(S)})

\* T::to_string of a persisted collection: one entry per member, in order
ToString(v) == SortedSeq(v)

Range(s) == {s[i] : i \in DOMAIN s}

\* T::from_str with Err = Infallible: entries that are no identifier are skipped
ParseInfallible(s) == Range(s) \ {Bad}

\* T::from_str with a real error type: any malformed entry fails the parse
Parsable(s) == Bad \notin Range(s)
ParseFallible(s) == Range(s)

StrictPrefixes(s) == {SubSeq(s, 1, k) : k \in 0..(Len(s) - 1)}

\* tokio::fs::write(path, contents): create or truncate, then write_all.
\* It fails before the open (file untouched) or part way through the write
\* (a strict prefix of the contents is left behind).
WriteOutcomes(f, s) ==
    {[res |-> "Ok", file |-> FileOf(s)]}
    \cup {[res |-> "IoError", file |-> f]}
    \cup {[res |-> "IoError", file |-> FileOf(p)] : p \in StrictPrefixes(s)}

\* a plausible slip: a parse failure is healed like a missing file
LoadFromFileFallibleHeal(f) ==
    IF ~f.exists
    THEN {[res |-> "FileNotFound", val |-> NoValue, file |-> f, wrote |-> FALSE]}
    ELSE {[res |-> "IoError", val |-> NoValue, file |-> f, wrote |-> FALSE]}
         \cup (IF Parsable(f.data)
               THEN {[res |-> "Ok", val |-> Value(ParseFallible(f.data)),
                      file |-> f, wrote |-> FALSE]}
               ELSE {[res |-> "Ok", val |-> Value(Default),
                      file |-> FileOf(ToString(Default)), wrote |-> TRUE]})

\* load_from_file_fallible
LoadFromFileFallibleOutcomes(f) ==
    IF ~f.exists
    THEN {[res |-> "FileNotFound", val |-> NoValue, file |-> f, wrote |-> FALSE]}
    ELSE {[res |-> "IoError", val |-> NoValue, file |-> f, wrote |-> FALSE]}
         \cup (IF Parsable(f.data)
               THEN {[res |-> "Ok", val |-> Value(ParseFallible(f.data)),
                      file |-> f, wrote |-> FALSE]}
               ELSE {[res |-> "ParseError", val |-> NoValue,
                      file |-> f, wrote |-> FALSE]})

\* a plausible slip: the default is returned but never written to the path
LoadFromFileNoHeal(f) ==
    IF ~f.exists
    THEN {[res |-> "Ok", val |-> Value(Default), file |-> f, wrote |-> FALSE]}
    ELSE {[res |-> "IoError", val |-> NoValue, file |-> f, wrote |-> FALSE],
          [res |-> "Ok", val |-> Value(ParseInfallible(f.data)),
           file |-> f, wrote |-> FALSE]}

\* load_from_file
LoadFromFileOutcomes(f) ==
    IF ~f.exists
    THEN {[res |-> w.res,
           val |-> IF w.res = "Ok" THEN Value(Default) ELSE NoValue,
           file |-> w.file, wrote |-> TRUE] : w \in WriteOutcomes(f, ToString(Default))}
    ELSE {[res |-> "IoError", val |-> NoValue, file |-> f, wrote |-> FALSE],
          [res |-> "Ok", val |-> Value(ParseInfallible(f.data)),
           file |-> f, wrote |-> FALSE]}

\* a plausible slip: `write(..).await.ok()` reports Ok whatever the write did
SaveToFileIgnoreErr(f, data) ==
    {[res |-> "Ok", val |-> Value(data), file |-> w.file, wrote |-> TRUE]
        : w \in WriteOutcomes(f, ToString(data))}

\* save_to_file
SaveToFileOutcomes(f, data) ==
    {[res |-> w.res, val |-> Value(data), file |-> w.file, wrote |-> TRUE]
        : w \in WriteOutcomes(f, ToString(data))}

(***************************************************************************)
(* SpecFile: calls of the three file helpers on one path                   *)
(***************************************************************************)
Record(op, before, o) ==
    [op |-> op, res |-> o.res, val |-> o.val, before |-> before,
     after |-> o.file, wrote |-> o.wrote]

FileLoad ==
    /\ Len(hist) < MaxOps
    /\ \E o \in LoadFromFileOutcomes(file) :
        /\ file' = o.file
        /\ hist' = Append(hist, Record("load", file, o))
    /\ UNCHANGED <<cliVars, exeVars, linkVars, raceVars, installVars>>

FileLoadFallible ==
    /\ Len(hist) < MaxOps
    /\ \E o \in LoadFromFileFallibleOutcomes(file) :
        /\ file' = o.file
        /\ hist' = Append(hist, Record("load_fallible", file, o))
    /\ UNCHANGED <<cliVars, exeVars, linkVars, raceVars, installVars>>

FileSave ==
    /\ Len(hist) < MaxOps
    /\ \E data \in Values : \E o \in SaveToFileOutcomes(file, data) :
        /\ file' = o.file
        /\ hist' = Append(hist, Record("save", file, o))
    /\ UNCHANGED <<cliVars, exeVars, linkVars, raceVars, installVars>>

(***************************************************************************)
(* Spec: one process invocation                                            *)
(***************************************************************************)
NoHome == [loaded |-> FALSE, trust |-> {}, tools |-> {}]
NotExited == -1

\* Home::load_from_env: the trust store file, then the tool index file
HomeLoadOutcomes(tf, lf) ==
    {[res |-> "LoadErr", home |-> NoHome, trustFile |-> o1.file, toolsFile |-> lf]
        : o1 \in {o \in LoadFromFileOutcomes(tf) : o.res # "Ok"}}
    \cup UNION {
        {[res |-> IF o2.res = "Ok" THEN "Ok" ELSE "LoadErr",
          home |-> IF o2.res = "Ok"
                   THEN [loaded |-> TRUE, trust |-> o1.val.v, tools |-> o2.val.v]
                   ELSE NoHome,
          trustFile |-> o1.file, toolsFile |-> o2.file]
            : o2 \in LoadFromFileOutcomes(lf)}
        : o1 \in {o \in LoadFromFileOutcomes(tf) : o.res = "Ok"}}

\* Home::save: both files are written; the save fails when either write fails
HomeSaveOutcomes(h, tf, lf) ==
    UNION {
        {[res |-> IF o1.res = "Ok" /\ o2.res = "Ok" THEN "Ok" ELSE "SaveErr",
          trustFile |-> o1.file, toolsFile |-> o2.file]
            : o2 \in SaveToFileOutcomes(lf, h.tools)}
        : o1 \in SaveToFileOutcomes(tf, h.trust)}

\* main.rs:19-20  runner.should_run() is true: the process acts as a tool
\* launcher and Cli::run is never entered
MainRunner ==
    /\ pc = "main"
    /\ \E r \in {"Ok", "RunnerErr"} :
        /\ runResult' = r
        /\ raised' = IF r = "Ok" THEN raised ELSE raised \cup {r}
    /\ pc' = "main_result"
    /\ UNCHANGED <<home, trustFile, toolsFile, loadResult, cmdResult, saveResult,
                   exitCode, logged, saveAttempts, saveArg, homeLoaded>>
    /\ UNCHANGED <<fileVars, exeVars, linkVars, raceVars, installVars>>

\* main.rs:21-22  Cli::parse().run()
MainCli ==
    /\ pc = "main"
    /\ pc' = "load"
    /\ UNCHANGED <<home, trustFile, toolsFile, loadResult, cmdResult, saveResult,
                   runResult, exitCode, logged, raised, saveAttempts, saveArg, homeLoaded>>
    /\ UNCHANGED <<fileVars, exeVars, linkVars, raceVars, installVars>>

\* a plausible slip: `.unwrap_or_default()` instead of `?` goes on after a failed load
CliLoadNoQuestionMark ==
    /\ pc = "load"
    /\ \E o \in HomeLoadOutcomes(trustFile, toolsFile) :
        /\ trustFile' = o.trustFile
        /\ toolsFile' = o.toolsFile
        /\ home' = [o.home EXCEPT !.loaded = TRUE]
        /\ homeLoaded' = [o.home EXCEPT !.loaded = TRUE]
        /\ loadResult' = o.res
        /\ raised' = IF o.res = "Ok" THEN raised ELSE raised \cup {"LoadErr"}
    /\ pc' = "command"
    /\ UNCHANGED <<cmdResult, saveResult, runResult, exitCode, logged,
                   saveAttempts, saveArg>>
    /\ UNCHANGED <<fileVars, exeVars, linkVars, raceVars, installVars>>

\* mod.rs:27-30  let home = Home::load_from_env().await.context(..)?;
CliLoad ==
    /\ pc = "load"
    /\ \E o \in HomeLoadOutcomes(trustFile, toolsFile) :
        /\ trustFile' = o.trustFile
        /\ toolsFile' = o.toolsFile
        /\ home' = o.home
        /\ homeLoaded' = o.home
        /\ loadResult' = o.res
        /\ IF o.res = "Ok"
           THEN /\ pc' = "command"
                /\ UNCHANGED <<runResult, raised>>
           ELSE /\ pc' = "main_result"
                /\ runResult' = "LoadErr"
                /\ raised' = raised \cup {"LoadErr"}
    /\ UNCHANGED <<cmdResult, saveResult, exitCode, logged, saveAttempts, saveArg>>
    /\ UNCHANGED <<fileVars, exeVars, linkVars, raceVars, installVars>>

\* a subcommand records a trust entry in Home (idempotent insert)
CmdTrust ==
    /\ pc = "command"
    /\ \E id \in Ids : home' = [home EXCEPT !.trust = @ \cup {id}]
    /\ UNCHANGED <<pc, trustFile, toolsFile, loadResult, cmdResult, saveResult,
                   runResult, exitCode, logged, raised, saveAttempts, saveArg, homeLoaded>>
    /\ UNCHANGED <<fileVars, exeVars, linkVars, raceVars, installVars>>

\* a subcommand records an installed tool in Home; only trusted tools install
CmdInstall ==
    /\ pc = "command"
    /\ \E id \in home.trust : home' = [home EXCEPT !.tools = @ \cup {id}]
    /\ UNCHANGED <<pc, trustFile, toolsFile, loadResult, cmdResult, saveResult,
                   runResult, exitCode, logged, raised, saveAttempts, saveArg, homeLoaded>>
    /\ UNCHANGED <<fileVars, exeVars, linkVars, raceVars, installVars>>

\* a plausible slip: `self.subcommand.run(&home).await?` returns early
CmdReturnQuestionMark ==
    /\ pc = "command"
    /\ \E r \in {"Ok", "CmdErr"} :
        /\ cmdResult' = r
        /\ IF r = "Ok"
           THEN /\ pc' = "save"
                /\ UNCHANGED <<runResult, raised>>
           ELSE /\ pc' = "main_result"
                /\ runResult' = r
                /\ raised' = raised \cup {r}
    /\ UNCHANGED <<home, trustFile, toolsFile, loadResult, saveResult,
                   exitCode, logged, saveAttempts, saveArg, homeLoaded>>
    /\ UNCHANGED <<fileVars, exeVars, linkVars, raceVars, installVars>>

\* mod.rs:40  let result = self.subcommand.run(&home).await;   (no `?`)
CmdReturn ==
    /\ pc = "command"
    /\ \E r \in {"Ok", "CmdErr"} :
        /\ cmdResult' = r
        /\ raised' = IF r = "Ok" THEN raised ELSE raised \cup {r}
    /\ pc' = "save"
    /\ UNCHANGED <<home, trustFile, toolsFile, loadResult, saveResult,
                   runResult, exitCode, logged, saveAttempts, saveArg, homeLoaded>>
    /\ UNCHANGED <<fileVars, exeVars, linkVars, raceVars, installVars>>

\* a plausible slip: `home.save().await.ok();` drops the save failure
CliSaveIgnoreErr ==
    /\ pc = "save"
    /\ \E o \in HomeSaveOutcomes(home, trustFile, toolsFile) :
        /\ trustFile' = o.trustFile
        /\ toolsFile' = o.toolsFile
        /\ saveResult' = o.res
        /\ raised' = IF o.res = "Ok" THEN raised ELSE raised \cup {"SaveErr"}
    /\ saveAttempts' = saveAttempts + 1
    /\ saveArg' = home
    /\ pc' = "return"
    /\ UNCHANGED <<home, loadResult, cmdResult, runResult, exitCode, logged, homeLoaded>>
    /\ UNCHANGED <<fileVars, exeVars, linkVars, raceVars, installVars>>

\* a plausible slip: the save is issued while the subcommand is still running
CliSaveBeforeCommand ==
    /\ pc = "command"
    /\ saveAttempts = 0
    /\ \E o \in HomeSaveOutcomes(home, trustFile, toolsFile) :
        /\ trustFile' = o.trustFile
        /\ toolsFile' = o.toolsFile
        /\ saveResult' = o.res
        /\ raised' = IF o.res = "Ok" THEN raised ELSE raised \cup {"SaveErr"}
    /\ saveAttempts' = saveAttempts + 1
    /\ saveArg' = home
    /\ UNCHANGED <<pc, home, loadResult, cmdResult, runResult, exitCode, logged,
                   homeLoaded>>
    /\ UNCHANGED <<fileVars, exeVars, linkVars, raceVars, installVars>>

\* mod.rs:49-52  home.save().await.context(..)?;
CliSave ==
    /\ pc = "save"
    /\ \E o \in HomeSaveOutcomes(home, trustFile, toolsFile) :
        /\ trustFile' = o.trustFile
        /\ toolsFile' = o.toolsFile
        /\ saveResult' = o.res
        /\ IF o.res = "Ok"
           THEN /\ pc' = "return"
                /\ UNCHANGED <<runResult, raised>>
           ELSE /\ pc' = "main_result"
                /\ runResult' = "SaveErr"
                /\ raised' = raised \cup {"SaveErr"}
    /\ saveAttempts' = saveAttempts + 1
    /\ saveArg' = home
    /\ UNCHANGED <<home, loadResult, cmdResult, exitCode, logged, homeLoaded>>
    /\ UNCHANGED <<fileVars, exeVars, linkVars, raceVars, installVars>>

\* mod.rs:59  result
CliReturn ==
    /\ pc = "return"
    /\ runResult' = cmdResult
    /\ pc' = "main_result"
    /\ UNCHANGED <<home, trustFile, toolsFile, loadResult, cmdResult, saveResult,
                   exitCode, logged, raised, saveAttempts, saveArg, homeLoaded>>
    /\ UNCHANGED <<fileVars, exeVars, linkVars, raceVars, installVars>>

\* a plausible slip: the error is logged but the process still exits with 0
MainExitNoCode ==
    /\ pc = "main_result"
    /\ logged' = IF runResult = "Ok" THEN logged ELSE logged \cup {runResult}
    /\ exitCode' = 0
    /\ pc' = "exited"
    /\ UNCHANGED <<home, trustFile, toolsFile, loadResult, cmdResult, saveResult,
                   runResult, raised, saveAttempts, saveArg, homeLoaded>>
    /\ UNCHANGED <<fileVars, exeVars, linkVars, raceVars, installVars>>

\* main.rs:28-32  if let Err(e) = result { error!("{e:?}"); exit(1); }
MainExit ==
    /\ pc = "main_result"
    /\ IF runResult = "Ok"
       THEN /\ exitCode' = 0
            /\ UNCHANGED logged
       ELSE /\ logged' = logged \cup {runResult}
            /\ exitCode' = 1
    /\ pc' = "exited"
    /\ UNCHANGED <<home, trustFile, toolsFile, loadResult, cmdResult, saveResult,
                   runResult, raised, saveAttempts, saveArg, homeLoaded>>
    /\ UNCHANGED <<fileVars, exeVars, linkVars, raceVars, installVars>>

(***************************************************************************)
(* SpecExe: write_executable_file, two installs on one final path          *)
(***************************************************************************)
PayloadLen == 2     \* bytes of each downloaded executable
Writers    == {1, 2}
Payload(w) == [i \in 1..PayloadLen |-> 10 * w + i]
PriorData  == <<91, 92>>

Max2(a, b) == IF a >= b THEN a ELSE b

\* write(2) of chunk c through a handle at offset k of a file holding d
WriteAt(d, k, c) ==
    [i \in 1..Max2(Len(d), k + Len(c)) |->
        IF i > k /\ i <= k + Len(c) THEN c[i - k]
        ELSE IF i <= Len(d) THEN d[i] ELSE 0]

\* util.rs:78  write(path, contents): File::create (create + truncate);
\* an open failure returns the error at util.rs:80
ExeOpen(w) ==
    /\ wpc[w] = "idle"
    /\ \/ /\ exeFile' = FileOf(<<>>)
          /\ exeMode' = (exeFile.exists /\ exeMode)
          /\ wpc' = [wpc EXCEPT ![w] = "write"]
          /\ woff' = [woff EXCEPT ![w] = 0]
          /\ UNCHANGED wres
       \/ /\ wpc' = [wpc EXCEPT ![w] = "done"]
          /\ wres' = [wres EXCEPT ![w] = "IoError"]
          /\ UNCHANGED <<exeFile, exeMode, woff>>
    /\ UNCHANGED <<finished, exePrior>>
    /\ UNCHANGED <<cliVars, fileVars, linkVars, raceVars, installVars>>

\* util.rs:78  write(path, contents): write_all, one write(2) per step;
\* a failed write returns the error at util.rs:80
ExeWrite(w) ==
    /\ wpc[w] = "write"
    /\ \/ \E n \in 1..(PayloadLen - woff[w]) :
            /\ exeFile' = FileOf(WriteAt(exeFile.data, woff[w],
                                         SubSeq(Payload(w), woff[w] + 1, woff[w] + n)))
            /\ woff' = [woff EXCEPT ![w] = @ + n]
            /\ wpc' = [wpc EXCEPT ![w] =
                          IF woff[w] + n = PayloadLen THEN "chmod" ELSE "write"]
            /\ UNCHANGED wres
       \/ /\ wpc' = [wpc EXCEPT ![w] = "done"]
          /\ wres' = [wres EXCEPT ![w] = "IoError"]
          /\ UNCHANGED <<exeFile, woff>>
    /\ UNCHANGED <<exeMode, finished, exePrior>>
    /\ UNCHANGED <<cliVars, fileVars, linkVars, raceVars, installVars>>

\* util.rs:83-85  add_executable_permissions(path).await?; Ok(())
\* util.rs:142-155 defines add_executable_permissions under cfg(unix) only;
\* under cfg(not(unix)) the no-op is named set_executable_permissions
\* (util.rs:157-160), so the call at util.rs:83 resolves to nothing there.
ExeChmod(w) ==
    /\ wpc[w] = "chmod"
    /\ wpc' = [wpc EXCEPT ![w] = "done"]
    /\ IF platform = "windows"
       THEN /\ wres' = [wres EXCEPT ![w] = "Unresolved"]
            /\ UNCHANGED <<exeMode, finished>>
       ELSE \/ /\ exeMode' = TRUE
               /\ wres' = [wres EXCEPT ![w] = "Ok"]
               /\ finished' = Append(finished, w)
            \/ /\ wres' = [wres EXCEPT ![w] = "IoError"]
               /\ UNCHANGED <<exeMode, finished>>
    /\ UNCHANGED <<exeFile, woff, exePrior>>
    /\ UNCHANGED <<cliVars, fileVars, linkVars, raceVars, installVars>>

\* the installing process is killed between two steps
ExeKill(w) ==
    /\ wpc[w] \in {"write", "chmod"}
    /\ wpc' = [wpc EXCEPT ![w] = "killed"]
    /\ UNCHANGED <<exeFile, exeMode, woff, wres, finished, exePrior>>
    /\ UNCHANGED <<cliVars, fileVars, linkVars, raceVars, installVars>>

(***************************************************************************)
(* SpecLink: write_executable_link on one link path                        *)
(***************************************************************************)
MaxTargets == 2     \* distinct target paths
MaxCalls   == 2     \* calls of write_executable_link in one run

Targets   == 1..MaxTargets
Platforms == {"linux", "macos", "windows"}
NoEntry   == [kind |-> "none", target |-> 0]
LinkTo(t) == [kind |-> "link", target |-> t]
DirEntry  == [kind |-> "dir", target |-> 0]
Entries   == {NoEntry, DirEntry} \cup {LinkTo(t) : t \in Targets}

\* remove_file(link_path): what it returns and what it leaves at the path
RemoveOutcomes(e) ==
    IF e.kind = "none" THEN {[res |-> "NotFound", entry |-> e]}
    ELSE IF e.kind = "dir" THEN {[res |-> "Other", entry |-> e]}
    ELSE {[res |-> "Ok", entry |-> NoEntry], [res |-> "Other", entry |-> e]}

\* a plausible slip: an occupied path (AlreadyExists) is taken for success
SymlinkOutcomesExistsOk(e, t) ==
    IF e.kind # "none" THEN {[res |-> "Ok", entry |-> e]}
    ELSE {[res |-> "Ok", entry |-> LinkTo(t)], [res |-> "IoError", entry |-> e]}

\* symlink(target_path, link_path): fails when the path is still occupied
SymlinkOutcomes(e, t) ==
    IF e.kind # "none" THEN {[res |-> "IoError", entry |-> e]}
    ELSE {[res |-> "Ok", entry |-> LinkTo(t)], [res |-> "IoError", entry |-> e]}

\* util.rs:97-104  entry of the unix build
LinkCall ==
    /\ lpc \in {"idle", "done"}
    /\ platform # "windows"
    /\ calls < MaxCalls
    /\ \E t \in Targets : ltarget' = t
    /\ lpc' = "remove"
    /\ calls' = calls + 1
    /\ linkBefore' = linkEntry
    /\ removeResult' = "None"
    /\ symlinkTried' = FALSE
    /\ chmodTried' = FALSE
    /\ linkResult' = "None"
    /\ UNCHANGED <<platform, linkEntry>>
    /\ UNCHANGED <<cliVars, fileVars, exeVars, raceVars, installVars>>

\* a plausible slip: the non-unix build returns an error value instead of panicking
LinkPanicAsError ==
    /\ lpc \in {"idle", "done"}
    /\ platform = "windows"
    /\ calls < MaxCalls
    /\ \E t \in Targets : ltarget' = t
    /\ lpc' = "done"
    /\ calls' = calls + 1
    /\ linkBefore' = linkEntry
    /\ linkResult' = "IoError"
    /\ UNCHANGED <<platform, linkEntry, removeResult, symlinkTried, chmodTried>>
    /\ UNCHANGED <<cliVars, fileVars, exeVars, raceVars, installVars>>

\* util.rs:134-140  the build for targets that are not unix
LinkPanic ==
    /\ lpc \in {"idle", "done"}
    /\ platform = "windows"
    /\ calls < MaxCalls
    /\ \E t \in Targets : ltarget' = t
    /\ lpc' = "panicked"
    /\ calls' = calls + 1
    /\ linkBefore' = linkEntry
    /\ linkResult' = "Panic"
    /\ UNCHANGED <<platform, linkEntry, removeResult, symlinkTried, chmodTried>>
    /\ UNCHANGED <<cliVars, fileVars, exeVars, raceVars, installVars>>

\* util.rs:109  remove_file(link_path).await.ok();
LinkRemove ==
    /\ lpc = "remove"
    /\ \E o \in RemoveOutcomes(linkEntry) :
        /\ removeResult' = o.res
        /\ linkEntry' = o.entry
    /\ lpc' = "symlink"
    /\ UNCHANGED <<platform, ltarget, symlinkTried, chmodTried, linkResult,
                   linkBefore, calls>>
    /\ UNCHANGED <<cliVars, fileVars, exeVars, raceVars, installVars>>

\* a plausible slip: the cfg(target_os = "macos") guard is missing
LinkSymlinkChmodAlways ==
    /\ lpc = "symlink"
    /\ symlinkTried' = TRUE
    /\ \E o \in SymlinkOutcomes(linkEntry, ltarget) :
        /\ linkEntry' = o.entry
        /\ IF o.res # "Ok"
           THEN lpc' = "done" /\ linkResult' = "IoError"
           ELSE lpc' = "chmod" /\ UNCHANGED linkResult
    /\ UNCHANGED <<platform, ltarget, removeResult, chmodTried, linkBefore, calls>>
    /\ UNCHANGED <<cliVars, fileVars, exeVars, raceVars, installVars>>

\* util.rs:111-114 and 123  symlink(target_path, link_path)
LinkSymlink ==
    /\ lpc = "symlink"
    /\ symlinkTried' = TRUE
    /\ \E o \in SymlinkOutcomes(linkEntry, ltarget) :
        /\ linkEntry' = o.entry
        /\ IF o.res # "Ok"
           THEN lpc' = "done" /\ linkResult' = "IoError"
           ELSE IF platform = "macos"
           THEN lpc' = "chmod" /\ UNCHANGED linkResult
           ELSE lpc' = "done" /\ linkResult' = "Ok"
    /\ UNCHANGED <<platform, ltarget, removeResult, chmodTried, linkBefore, calls>>
    /\ UNCHANGED <<cliVars, fileVars, exeVars, raceVars, installVars>>

\* util.rs:118-121  macOS only: add_executable_permissions(link_path).await?
LinkChmod ==
    /\ lpc = "chmod"
    /\ chmodTried' = TRUE
    /\ \E r \in {"Ok", "IoError"} : linkResult' = r
    /\ lpc' = "done"
    /\ UNCHANGED <<platform, linkEntry, ltarget, removeResult, symlinkTried,
                   linkBefore, calls>>
    /\ UNCHANGED <<cliVars, fileVars, exeVars, raceVars, installVars>>

(***************************************************************************)
(* SpecRace: two process invocations on the same state files, no locking   *)
(***************************************************************************)
Procs == {1, 2}
NotSaved == [done |-> FALSE, ok |-> FALSE, home |-> NoHome]

\* mod.rs:27-30  Home::load_from_env()? of invocation p
RaceLoad(p) ==
    /\ rpc[p] = "load"
    /\ \E o \in HomeLoadOutcomes(rTrust, rTools) :
        /\ rTrust' = o.trustFile
        /\ rTools' = o.toolsFile
        /\ rhome' = [rhome EXCEPT ![p] = o.home]
        /\ rpc' = [rpc EXCEPT ![p] = IF o.res = "Ok" THEN "command" ELSE "failed"]
    /\ UNCHANGED <<rsaved, saveOrder>>
    /\ UNCHANGED <<cliVars, fileVars, exeVars, linkVars, installVars>>

\* the subcommand of invocation p records a trust entry
RaceCmdTrust(p) ==
    /\ rpc[p] = "command"
    /\ \E id \in Ids : rhome' = [rhome EXCEPT ![p].trust = @ \cup {id}]
    /\ UNCHANGED <<rpc, rTrust, rTools, rsaved, saveOrder>>
    /\ UNCHANGED <<cliVars, fileVars, exeVars, linkVars, installVars>>

\* the subcommand of invocation p records an installed tool
RaceCmdInstall(p) ==
    /\ rpc[p] = "command"
    /\ \E id \in rhome[p].trust : rhome' = [rhome EXCEPT ![p].tools = @ \cup {id}]
    /\ UNCHANGED <<rpc, rTrust, rTools, rsaved, saveOrder>>
    /\ UNCHANGED <<cliVars, fileVars, exeVars, linkVars, installVars>>

\* mod.rs:40  the subcommand of invocation p returns
RaceCmdReturn(p) ==
    /\ rpc[p] = "command"
    /\ rpc' = [rpc EXCEPT ![p] = "save_trust"]
    /\ UNCHANGED <<rhome, rTrust, rTools, rsaved, saveOrder>>
    /\ UNCHANGED <<cliVars, fileVars, exeVars, linkVars, installVars>>

\* mod.rs:49  home.save(): save_to_file of the trust store file
RaceSaveTrust(p) ==
    /\ rpc[p] = "save_trust"
    /\ \E o \in SaveToFileOutcomes(rTrust, rhome[p].trust) :
        /\ rTrust' = o.file
        /\ rsaved' = [rsaved EXCEPT ![p] =
                        [done |-> FALSE, ok |-> (o.res = "Ok"), home |-> rhome[p]]]
    /\ rpc' = [rpc EXCEPT ![p] = "save_tools"]
    /\ UNCHANGED <<rhome, rTools, saveOrder>>
    /\ UNCHANGED <<cliVars, fileVars, exeVars, linkVars, installVars>>

\* mod.rs:49-59  home.save(): save_to_file of the tool index file, then return
RaceSaveTools(p) ==
    /\ rpc[p] = "save_tools"
    /\ \E o \in SaveToFileOutcomes(rTools, rhome[p].tools) :
        /\ rTools' = o.file
        /\ rsaved' = [rsaved EXCEPT ![p] =
                        [done |-> TRUE, ok |-> (rsaved[p].ok /\ o.res = "Ok"),
                         home |-> rhome[p]]]
    /\ rpc' = [rpc EXCEPT ![p] = "done"]
    /\ saveOrder' = Append(saveOrder, p)
    /\ UNCHANGED <<rhome, rTrust>>
    /\ UNCHANGED <<cliVars, fileVars, exeVars, linkVars, installVars>>

(***************************************************************************)
(* SpecInstall: one run of the self-install subcommand                     *)
(***************************************************************************)
NoLinks == [ok |-> FALSE, had |-> FALSE, updated |-> FALSE]

\* storage.recreate_all_links(): an error, or the pair
\* (had_aftman_installed, was_aftman_updated)
RecreateAllLinksOutcomes ==
    {NoLinks} \cup {[ok |-> TRUE, had |-> h, updated |-> u] : h, u \in BOOLEAN}

\* a plausible slip: the two tests of the message are made in the other order
MainMessageUpdatedFirst(had, updated) ==
    IF updated THEN "re-linked successfully"
    ELSE IF ~had THEN "installed successfully"
    ELSE "already up-to-date"

\* self_install.rs:29-35  let main_message = if !had_aftman_installed ..
MainMessage(had, updated) ==
    IF ~had THEN "installed successfully"
    ELSE IF updated THEN "re-linked successfully"
    ELSE "already up-to-date"

\* self_install.rs:12-18  storage.recreate_all_links().await.context(..)?
SelfInstallRecreate ==
    /\ siPc = "start"
    /\ \E o \in RecreateAllLinksOutcomes :
        /\ siLinks' = o
        /\ IF o.ok
           THEN siPc' = "message" /\ UNCHANGED siResult
           ELSE siPc' = "done" /\ siResult' = "LinkErr"
    /\ UNCHANGED <<siHome, siHomeBefore, siMessage>>
    /\ UNCHANGED <<cliVars, fileVars, exeVars, linkVars, raceVars>>

\* self_install.rs:20-39  choose the message, tracing::info!, Ok(())
SelfInstallMessage ==
    /\ siPc = "message"
    /\ siMessage' = MainMessage(siLinks.had, siLinks.updated)
    /\ siResult' = "Ok"
    /\ siPc' = "done"
    /\ UNCHANGED <<siHome, siHomeBefore, siLinks>>
    /\ UNCHANGED <<cliVars, fileVars, exeVars, linkVars, raceVars>>

(***************************************************************************)
(* Initial states and specifications                                       *)
(***************************************************************************)
IdleCli ==
    /\ pc = "off"
    /\ home = NoHome
    /\ homeLoaded = NoHome
    /\ trustFile = NoFile
    /\ toolsFile = NoFile
    /\ loadResult = "None"
    /\ cmdResult = "None"
    /\ saveResult = "None"
    /\ runResult = "None"
    /\ exitCode = NotExited
    /\ logged = {}
    /\ raised = {}
    /\ saveAttempts = 0
    /\ saveArg = NoHome

IdleFile ==
    /\ file = NoFile
    /\ hist = <<>>

IdleExe ==
    /\ exeFile = NoFile
    /\ exePrior = NoFile
    /\ exeMode = FALSE
    /\ wpc = [w \in Writers |-> "off"]
    /\ woff = [w \in Writers |-> 0]
    /\ wres = [w \in Writers |-> "None"]
    /\ finished = <<>>

IdleLink ==
    /\ platform = "linux"
    /\ linkEntry = NoEntry
    /\ lpc = "off"
    /\ ltarget = 0
    /\ removeResult = "None"
    /\ symlinkTried = FALSE
    /\ chmodTried = FALSE
    /\ linkResult = "None"
    /\ linkBefore = NoEntry
    /\ calls = 0

IdleLinkOn(p) ==
    /\ platform = p
    /\ linkEntry = NoEntry
    /\ lpc = "off"
    /\ ltarget = 0
    /\ removeResult = "None"
    /\ symlinkTried = FALSE
    /\ chmodTried = FALSE
    /\ linkResult = "None"
    /\ linkBefore = NoEntry
    /\ calls = 0

IdleRace ==
    /\ rpc = [p \in Procs |-> "off"]
    /\ rhome = [p \in Procs |-> NoHome]
    /\ rTrust = NoFile
    /\ rTools = NoFile
    /\ rsaved = [p \in Procs |-> NotSaved]
    /\ saveOrder = <<>>

IdleInstall ==
    /\ siPc = "off"
    /\ siHome = NoHome
    /\ siHomeBefore = NoHome
    /\ siLinks = NoLinks
    /\ siResult = "None"
    /\ siMessage = "None"

\* state files as an earlier run or a text editor may have left them
InitStateFiles ==
    {NoFile, FileOf(<<Bad>>)} \cup {FileOf(ToString(v)) : v \in Values}

Init ==
    /\ pc = "main"
    /\ home = NoHome
    /\ homeLoaded = NoHome
    /\ trustFile \in InitStateFiles
    /\ toolsFile \in InitStateFiles
    /\ loadResult = "None"
    /\ cmdResult = "None"
    /\ saveResult = "None"
    /\ runResult = "None"
    /\ exitCode = NotExited
    /\ logged = {}
    /\ raised = {}
    /\ saveAttempts = 0
    /\ saveArg = NoHome
    /\ IdleFile /\ IdleExe /\ IdleLink /\ IdleRace /\ IdleInstall

Next ==
    \/ MainRunner
    \/ MainCli
    \/ CliLoad
    \/ CmdTrust
    \/ CmdInstall
    \/ CmdReturn
    \/ CliSave
    \/ CliReturn
    \/ MainExit

Spec == Init /\ [][Next]_vars

InitFile ==
    /\ file \in AllFiles
    /\ hist = <<>>
    /\ IdleCli /\ IdleExe /\ IdleLink /\ IdleRace /\ IdleInstall

NextFile ==
    \/ FileLoad
    \/ FileLoadFallible
    \/ FileSave

SpecFile == InitFile /\ [][NextFile]_vars

InitExe ==
    /\ exePrior \in {NoFile, FileOf(PriorData)}
    /\ exeFile = exePrior
    /\ exeMode = exePrior.exists
    /\ wpc = [w \in Writers |-> "idle"]
    /\ woff = [w \in Writers |-> 0]
    /\ wres = [w \in Writers |-> "None"]
    /\ finished = <<>>
    /\ IdleCli /\ IdleFile /\ (\E p \in Platforms : IdleLinkOn(p))
    /\ IdleRace /\ IdleInstall

NextExe ==
    \E w \in Writers :
        \/ ExeOpen(w)
        \/ ExeWrite(w)
        \/ ExeChmod(w)
        \/ ExeKill(w)

SpecExe == InitExe /\ [][NextExe]_vars

InitLink ==
    /\ platform \in Platforms
    /\ linkEntry \in Entries
    /\ lpc = "idle"
    /\ ltarget = 0
    /\ removeResult = "None"
    /\ symlinkTried = FALSE
    /\ chmodTried = FALSE
    /\ linkResult = "None"
    /\ linkBefore = NoEntry
    /\ calls = 0
    /\ IdleCli /\ IdleFile /\ IdleExe /\ IdleRace /\ IdleInstall

NextLink ==
    \/ LinkCall
    \/ LinkPanic
    \/ LinkRemove
    \/ LinkSymlink
    \/ LinkChmod

SpecLink == InitLink /\ [][NextLink]_vars

InitRace ==
    /\ rpc = [p \in Procs |-> "load"]
    /\ rhome = [p \in Procs |-> NoHome]
    /\ rTrust \in InitStateFiles
    /\ rTools \in {NoFile, FileOf(ToString(Default))}
    /\ rsaved = [p \in Procs |-> NotSaved]
    /\ saveOrder = <<>>
    /\ IdleCli /\ IdleFile /\ IdleExe /\ IdleLink /\ IdleInstall

NextRace ==
    \E p \in Procs :
        \/ RaceLoad(p)
        \/ RaceCmdTrust(p)
        \/ RaceCmdInstall(p)
        \/ RaceCmdReturn(p)
        \/ RaceSaveTrust(p)
        \/ RaceSaveTools(p)

SpecRace == InitRace /\ [][NextRace]_vars

InitInstall ==
    /\ siPc = "start"
    /\ siHome \in {[loaded |-> TRUE, trust |-> t, tools |-> l] : t, l \in Values}
    /\ siHomeBefore = siHome
    /\ siLinks = NoLinks
    /\ siResult = "None"
    /\ siMessage = "None"
    /\ IdleCli /\ IdleFile /\ IdleExe /\ IdleLink /\ IdleRace

NextInstall ==
    \/ SelfInstallRecreate
    \/ SelfInstallMessage

SpecInstall == InitInstall /\ [][NextInstall]_vars

(***************************************************************************)
(* Properties of one process invocation (Spec)                             *)
(***************************************************************************)

\* C1: once Home was loaded, Cli::run calls home.save() exactly once, only
\* after the subcommand has returned (Ok or Err), and what is saved is Home
\* with every mutation the subcommand made, also when it returned an error.
C1_SaveOnceAfterCommand ==
    /\ saveAttempts <= 1
    /\ saveAttempts = 1 =>
        /\ loadResult = "Ok"
        /\ cmdResult \in {"Ok", "CmdErr"}
        /\ saveArg = home
        /\ homeLoaded.trust \subseteq saveArg.trust
        /\ homeLoaded.tools \subseteq saveArg.tools
    /\ (loadResult = "Ok" /\ pc \in {"return", "main_result", "exited"}) =>
        saveAttempts = 1
    /\ saveResult = "Ok" =>
        /\ ParseInfallible(trustFile.data) = home.trust
        /\ ParseInfallible(toolsFile.data) = home.tools

\* C1 witness: the subcommand added a trust entry, failed, and the entry is on disk
C1_Witness ==
    /\ pc = "exited"
    /\ cmdResult = "CmdErr"
    /\ saveResult = "Ok"
    /\ saveAttempts = 1
    /\ home.trust # homeLoaded.trust
    /\ trustFile = FileOf(ToString(home.trust))

\* C2: after a successful load, Cli::run returns the save error whenever the
\* save failed, and otherwise exactly the subcommand's result.
C2_RunResult ==
    (loadResult = "Ok" /\ pc \in {"main_result", "exited"}) =>
        /\ saveResult \in {"Ok", "SaveErr"}
        /\ runResult = IF saveResult = "SaveErr" THEN "SaveErr" ELSE cmdResult

\* C2 witness: the subcommand succeeded, the save failed, run returned the save error
C2_Witness ==
    /\ pc = "main_result"
    /\ cmdResult = "Ok"
    /\ saveResult = "SaveErr"
    /\ runResult = "SaveErr"

\* C3: a process that entered Cli::run exits with code 0 exactly when load,
\* subcommand and save all succeeded; otherwise it exits with a nonzero code
\* and the returned error has been logged by then.
C3_ExitCode ==
    /\ pc # "exited" => exitCode = NotExited
    /\ (pc = "exited" /\ loadResult # "None") =>
        /\ exitCode \in {0, 1}
        /\ exitCode = 0 <=>
            (loadResult = "Ok" /\ cmdResult = "Ok" /\ saveResult = "Ok")
        /\ exitCode # 0 => (runResult # "Ok" /\ logged = {runResult})
        /\ exitCode = 0 => logged = {}

\* C3 witness: the subcommand succeeded, the save failed, the process exited with 1
C3_Witness ==
    /\ pc = "exited"
    /\ loadResult = "Ok"
    /\ cmdResult = "Ok"
    /\ saveResult = "SaveErr"
    /\ exitCode = 1
    /\ logged = {"SaveErr"}

\* C7: every error raised by load, subcommand or save during the invocation
\* has been reported (returned by Cli::run and logged by main) at exit; in
\* particular the subcommand's error is reported when the save fails too.
C7_EveryErrorSurfaced ==
    pc = "exited" => raised \subseteq logged

(***************************************************************************)
(* Properties of write_executable_file (SpecExe)                           *)
(***************************************************************************)

\* C4: when a single write_executable_file is interrupted (killed, or the
\* write fails part way), the final path holds the complete prior file, no
\* file, or the complete new contents, never a prefix of the new contents.
\* (Stated for the unix builds, where the whole function exists.)
C4_NoPartialFile ==
    \A w \in Writers :
        ( /\ platform # "windows"
          /\ \/ wpc[w] = "killed"
             \/ (wpc[w] = "done" /\ wres[w] = "IoError")
          /\ \A u \in Writers \ {w} : wpc[u] = "idle" )
        => exeFile \in {exePrior, NoFile, FileOf(Payload(w))}

\* C5: with two installs writing the same final path and neither interrupted,
\* the path shows only no file or the complete contents of one writer (the
\* prior file until the first writer starts), and once both have returned it
\* holds the complete contents of the writer that finished last.
\* (Stated for the unix builds, where the whole function exists.)
C5_RaceSafe ==
    (platform # "windows"
        /\ \A w \in Writers : wpc[w] # "killed" /\ wres[w] # "IoError") =>
        /\ \/ exeFile \in {NoFile} \cup {FileOf(Payload(w)) : w \in Writers}
           \/ (exeFile = exePrior /\ \A w \in Writers : wpc[w] = "idle")
        /\ Len(finished) = Cardinality(Writers) =>
            exeFile = FileOf(Payload(finished[Len(finished)]))

(***************************************************************************)
(* Properties of write_executable_link (SpecLink)                          *)
(***************************************************************************)

\* C6: a 'not found' failure of the removal is ignored and the link is
\* created; any other removal failure aborts the call: it returns an error
\* and symlink() is never attempted.
C6_RemoveFailureAborts ==
    /\ (removeResult = "NotFound" /\ lpc \in {"chmod", "done"}) => symlinkTried
    /\ removeResult = "Other" =>
        /\ ~symlinkTried
        /\ lpc # "chmod"
        /\ lpc = "done" => linkResult = "IoError"

(***************************************************************************)
(* Properties of the state file helpers (SpecFile)                         *)
(***************************************************************************)

\* C8: load_from_file on a missing file writes the default serialized form
\* and returns the default value, or returns the I/O error of that write; a
\* load that follows a healing load reads the file, returns the same default
\* and writes nothing.
C8_MissingFileHealed ==
    \A i \in DOMAIN hist :
        (hist[i].op = "load" /\ ~hist[i].before.exists) =>
            /\ hist[i].wrote
            /\ hist[i].res \in {"Ok", "IoError"}
            /\ hist[i].res = "Ok" =>
                /\ hist[i].val = Value(Default)
                /\ hist[i].after = FileOf(ToString(Default))
            /\ hist[i].res = "IoError" => hist[i].val = NoValue
            /\ (hist[i].res = "Ok" /\ i + 1 \in DOMAIN hist
                    /\ hist[i + 1].op = "load") =>
                /\ hist[i + 1].before.exists
                /\ ~hist[i + 1].wrote
                /\ hist[i + 1].after = hist[i].after
                /\ hist[i + 1].res \in {"Ok", "IoError"}
                /\ hist[i + 1].res = "Ok" => hist[i + 1].val = hist[i].val

\* C8 witness: a healing load followed by a second successful load
C8_Witness ==
    /\ Len(hist) = 2
    /\ hist[1].op = "load" /\ ~hist[1].before.exists /\ hist[1].res = "Ok"
    /\ hist[2].op = "load" /\ hist[2].res = "Ok"
    /\ hist[2].val = Value(Default)
    /\ file.exists

\* C9: loading a present file that cannot be parsed returns an error that
\* differs from the missing-file error, returns no value and leaves the file
\* as it was; no loader overwrites a present file with defaults.
C9_CorruptFileFatal ==
    \A i \in DOMAIN hist :
        /\ (hist[i].op = "load_fallible" /\ hist[i].before.exists
                /\ ~Parsable(hist[i].before.data)) =>
            /\ hist[i].res \in {"ParseError", "IoError"}
            /\ hist[i].val = NoValue
            /\ hist[i].after = hist[i].before
            /\ ~hist[i].wrote
        /\ (hist[i].op = "load_fallible" /\ hist[i].res = "FileNotFound") =>
            ~hist[i].before.exists
        /\ (hist[i].op = "load_fallible" /\ ~hist[i].before.exists) =>
            hist[i].res = "FileNotFound"
        /\ (hist[i].op \in {"load", "load_fallible"} /\ hist[i].before.exists) =>
            (hist[i].after = hist[i].before /\ ~hist[i].wrote)

\* C9 witness: a fallible load of a present file with a malformed entry
C9_Witness ==
    \E i \in DOMAIN hist :
        /\ hist[i].op = "load_fallible"
        /\ hist[i].before.exists
        /\ ~Parsable(hist[i].before.data)
        /\ hist[i].res = "ParseError"
        /\ file = hist[i].before

\* C10: a load that follows a successful save_to_file of a value returns an
\* equal value (same members) and leaves the file as the save wrote it.
C10_RoundTrip ==
    \A i \in DOMAIN hist :
        (hist[i].op = "save" /\ hist[i].res = "Ok" /\ i + 1 \in DOMAIN hist
                /\ hist[i + 1].op \in {"load", "load_fallible"}) =>
            /\ hist[i + 1].before = hist[i].after
            /\ hist[i + 1].after = hist[i].after
            /\ ~hist[i + 1].wrote
            /\ hist[i + 1].res \in {"Ok", "IoError"}
            /\ hist[i + 1].res = "Ok" => hist[i + 1].val = hist[i].val

\* C10 witness: a non-empty value saved over an unrelated file, then loaded back
C10_Witness ==
    /\ Len(hist) = 2
    /\ hist[1].op = "save" /\ hist[1].res = "Ok" /\ hist[1].val = Value(Ids)
    /\ hist[1].before # hist[1].after
    /\ hist[2].op = "load" /\ hist[2].res = "Ok" /\ hist[2].val = Value(Ids)

(***************************************************************************)
(* Properties of two concurrent invocations (SpecRace)                     *)
(***************************************************************************)

\* C11: when two invocations both ran load -> command -> save to the end and
\* both saves succeeded, the persisted state is the state written by the
\* invocation whose save finished last: both files hold that invocation's
\* Home, never one file of each.
C11_LastSaveWins ==
    (/\ Len(saveOrder) = Cardinality(Procs)
     /\ \A p \in Procs : rpc[p] = "done" /\ rsaved[p].ok) =>
        LET last == saveOrder[Len(saveOrder)] IN
            /\ ParseInfallible(rTrust.data) = rsaved[last].home.trust
            /\ ParseInfallible(rTools.data) = rsaved[last].home.tools

(***************************************************************************)
(* Further properties of write_executable_link (SpecLink)                  *)
(***************************************************************************)

\* C12: on a platform with symlinks, whenever write_executable_link returns
\* Ok the link path holds a link to the target, whatever was there before
\* (nothing, a link to the same target, a link to another target); a repeated
\* call that returns Ok leaves the same link.
C12_LinkIdempotent ==
    (platform # "windows" /\ lpc = "done" /\ linkResult = "Ok") =>
        /\ linkEntry = LinkTo(ltarget)
        /\ symlinkTried
        /\ removeResult \in {"Ok", "NotFound"}
        /\ linkBefore \in {NoEntry} \cup {LinkTo(t) : t \in Targets}
        /\ linkBefore = LinkTo(ltarget) => linkEntry = linkBefore

\* C12 witness: a second call on a path that already links to the same target
C12_Witness ==
    /\ platform # "windows"
    /\ calls = 2
    /\ lpc = "done"
    /\ linkResult = "Ok"
    /\ linkBefore = LinkTo(ltarget)
    /\ linkEntry = LinkTo(ltarget)

\* C14: set_permissions on the link path is called only in the macOS build
\* and only after the symlink was created; the other unix builds never call
\* it; on macOS the call returns Ok only after it, and when it fails the call
\* returns an error while the new link is in place.
C14_LinkChmodOnlyMacos ==
    /\ (chmodTried \/ lpc = "chmod") =>
        /\ platform = "macos"
        /\ symlinkTried
        /\ linkEntry = LinkTo(ltarget)
    /\ platform = "linux" => (~chmodTried /\ lpc # "chmod")
    /\ (platform = "macos" /\ lpc = "done" /\ linkResult = "Ok") => chmodTried
    /\ (platform = "linux" /\ lpc = "done" /\ linkEntry = LinkTo(ltarget)
            /\ removeResult # "Other") => linkResult = "Ok"

\* C14 witness: on macOS the permission change failed after the link was made
C14_Witness ==
    /\ platform = "macos"
    /\ lpc = "done"
    /\ chmodTried
    /\ linkResult = "IoError"
    /\ linkEntry = LinkTo(ltarget)
    /\ linkBefore # linkEntry

\* C15: in the build without symlinks a call of write_executable_link panics:
\* it returns neither Ok nor an error value, and it removes, creates and
\* changes nothing at the link path.
C15_NoSymlinkPlatformPanics ==
    platform = "windows" =>
        /\ linkResult \in {"None", "Panic"}
        /\ lpc \in {"idle", "panicked"}
        /\ removeResult = "None"
        /\ ~symlinkTried
        /\ ~chmodTried
        /\ calls > 0 =>
            /\ lpc = "panicked"
            /\ linkResult = "Panic"
            /\ linkEntry = linkBefore

\* C15 witness: the call panicked and the old link is still in place
C15_Witness ==
    /\ platform = "windows"
    /\ calls = 1
    /\ lpc = "panicked"
    /\ linkResult = "Panic"
    /\ linkEntry.kind = "link"
    /\ linkEntry = linkBefore

(***************************************************************************)
(* Further properties of one process invocation (Spec)                     *)
(***************************************************************************)

\* C13: the phases of Cli::run never overlap: nothing of the subcommand or
\* the save happens before the load has completed, no save happens while the
\* subcommand runs, the load result never changes once set, and Home is not
\* touched any more once the subcommand has returned.
C13_PhasesOrdered ==
    /\ [](/\ pc \in {"main", "load"} =>
               (loadResult = "None" /\ ~home.loaded /\ cmdResult = "None"
                    /\ saveAttempts = 0)
          /\ pc = "command" =>
               (loadResult = "Ok" /\ home.loaded /\ cmdResult = "None"
                    /\ saveAttempts = 0)
          /\ saveAttempts > 0 => (loadResult = "Ok" /\ cmdResult # "None"))
    /\ [][/\ loadResult # "None" => loadResult' = loadResult
          /\ cmdResult # "None" => (cmdResult' = cmdResult /\ home' = home)
          /\ saveAttempts' # saveAttempts => (pc = "save" /\ cmdResult # "None")
          /\ home' # home => pc \in {"load", "command"}
          /\ saveAttempts > 0 => pc' \notin {"load", "command"}]_vars

\* C13 witness: all three phases ran, the subcommand changed Home in between
C13_Witness ==
    /\ pc = "exited"
    /\ loadResult = "Ok"
    /\ cmdResult = "Ok"
    /\ saveResult = "Ok"
    /\ home.tools # homeLoaded.tools
    /\ toolsFile = FileOf(ToString(home.tools))

\* C18: when loading Home fails, Cli::run returns the load error at once: the
\* subcommand is never run, save is never called, and no state file changes
\* after the failed load.
C18_LoadFailureReturnsEarly ==
    /\ [](loadResult = "LoadErr" =>
            /\ pc \in {"main_result", "exited"}
            /\ runResult = "LoadErr"
            /\ cmdResult = "None"
            /\ saveResult = "None"
            /\ saveAttempts = 0
            /\ home = NoHome
            /\ saveArg = NoHome)
    /\ [][loadResult = "LoadErr" =>
            (trustFile' = trustFile /\ toolsFile' = toolsFile)]_vars

\* C18 witness: the load failed and the process exited without a save
C18_Witness ==
    /\ pc = "exited"
    /\ loadResult = "LoadErr"
    /\ runResult = "LoadErr"
    /\ saveAttempts = 0
    /\ exitCode = 1
    /\ logged = {"LoadErr"}

(***************************************************************************)
(* Further properties of write_executable_file (SpecExe)                   *)
(***************************************************************************)

\* C16: write_executable_file returns Ok only after the whole contents were
\* written and the file was marked executable; the marking is reached only
\* after a complete write, a failed write returns the error, and in a build
\* without an executable bit the marking is a no-op that succeeds.
C16_WriteThenMark ==
    \A w \in Writers :
        /\ wres[w] = "Ok" =>
            /\ wpc[w] = "done"
            /\ woff[w] = PayloadLen
            /\ platform # "windows" => exeMode
        /\ wpc[w] = "chmod" => woff[w] = PayloadLen
        /\ (wpc[w] = "done" /\ woff[w] < PayloadLen) => wres[w] = "IoError"
        /\ (platform = "windows" /\ wpc[w] = "done" /\ woff[w] = PayloadLen) =>
            wres[w] = "Ok"

(***************************************************************************)
(* Properties of the self-install subcommand (SpecInstall)                 *)
(***************************************************************************)

\* C17: for every pair (had_prior_install, was_updated) returned by
\* recreate_all_links the subcommand returns Ok, leaves Home as it was and
\* chooses one message: 'installed' iff there was no prior install,
\* 're-linked' iff there was one and a link changed, 'up-to-date' iff there
\* was one and nothing changed; when recreate_all_links fails the subcommand
\* returns that error and no message is emitted.
C17_SelfInstallMessages ==
    /\ siPc # "done" => (siMessage = "None" /\ siResult = "None")
    /\ siHome = siHomeBefore
    /\ siPc = "done" =>
        IF siLinks.ok
        THEN /\ siResult = "Ok"
             /\ siMessage \in {"installed successfully", "re-linked successfully",
                               "already up-to-date"}
             /\ siMessage = "installed successfully" <=> ~siLinks.had
             /\ siMessage = "re-linked successfully" <=>
                    (siLinks.had /\ siLinks.updated)
             /\ siMessage = "already up-to-date" <=>
                    (siLinks.had /\ ~siLinks.updated)
        ELSE /\ siResult = "LinkErr"
             /\ siMessage = "None"

\* C17 witness: no prior install although links changed: 'installed' is chosen
C17_Witness ==
    /\ siPc = "done"
    /\ siLinks.ok /\ ~siLinks.had /\ siLinks.updated
    /\ siResult = "Ok"
    /\ siMessage = "installed successfully"
    /\ siHome.trust # {}

====
